---- MODULE Spec2Model ----
(***************************************************************************)
(* Model of the meeting-transcript ingestion pipeline of meetingintern:    *)
(* main.py (handle_request, process_meet_files), drive_api.py (discovery,  *)
(* processed flag, copy, mark-by-title), gemini_api.py and chat_api.py     *)
(* (text generation and chat posts, seen from the pipeline as calls that   *)
(* either return a value or a failure value).                              *)
(***************************************************************************)
EXTENDS Integers, Sequences, FiniteSets, TLC

\* ------------------------------------------------------------------ bounds
NumTranscripts == 2
MaxInvocations == 2
MaxTextLen == 4
MaxLimit == 3
\* The rate limiter's ceiling (55 calls) and window (60 seconds), scaled, and
\* the last second of the clock.
Ceiling == 2
Window == 5
MaxTime == 8

\* ---------------------------------------------------------------- fixtures
\* The documents of the "Meet Recordings" folders, in listing order.
Transcripts == 1..NumTranscripts

\* Document names: the first and the last document share a title (duplicate
\* copies of one recording in two folders), the others have their own.
Title(t) == IF t = NumTranscripts THEN 1 ELSE t

\* USERS_TO_PROCESS after the split/strip of handle_request.
TwoUsers == <<"a", "b">>
OneUser == <<"a">>

RECURSIVE SplitOn(_, _)
\* str.split(sep) on a sequence of characters: the fields between the
\* separators, at least one field.
SplitOn(str, sep) ==
    IF \A i \in 1..Len(str) : str[i] # sep
    THEN <<str>>
    ELSE LET k == CHOOSE i \in 1..Len(str) :
                     str[i] = sep /\ \A j \in 1..(i - 1) : str[j] # sep
         IN <<SubSeq(str, 1, k - 1)>>
               \o SplitOn(SubSeq(str, k + 1, Len(str)), sep)

RECURSIVE Strip(_)
\* str.strip(): the blanks at both ends removed.
Strip(str) ==
    IF str # <<>> /\ Head(str) = " " THEN Strip(Tail(str))
    ELSE IF str # <<>> /\ str[Len(str)] = " "
         THEN Strip(SubSeq(str, 1, Len(str) - 1))
         ELSE str

\* handle_request lines 197-198: the identities named by USERS_TO_PROCESS,
\* split at the commas, stripped, the empty ones dropped.
ParseUsers(raw) ==
    LET fields == SplitOn(Strip(raw), ",")
        stripped == [i \in 1..Len(fields) |-> Strip(fields[i])]
    IN SelectSeq(stripped, LAMBDA u : u # <<>>)

\* Values of USERS_TO_PROCESS: "a, a" and " a,".
UserConfigs == {<<"a", ",", " ", "a">>, <<" ", "a", ",">>}

\* The newline character.
NL == "\n"

RECURSIVE Join(_)
\* '\n'.join(lines) on sequences of characters.
Join(lines) ==
    IF lines = <<>> THEN <<>>
    ELSE IF Len(lines) = 1 THEN lines[1]
         ELSE lines[1] \o <<NL>> \o Join(Tail(lines))

\* A flush that tests the joined text, not the list of lines.
FlushNonEmptyText(done, current_chunk) ==
    IF Join(current_chunk) # <<>> THEN Append(done, Join(current_chunk))
    ELSE done

\* GeminiAPI._chunk_content lines 70-71 and 78-79: the lines collected so
\* far, if any, become a chunk.
Flush(done, current_chunk) ==
    IF current_chunk # <<>> THEN Append(done, Join(current_chunk)) ELSE done

RECURSIVE PackLines(_, _, _, _, _)
\* GeminiAPI._chunk_content lines 67-79: the loop over the lines, from the
\* state (chunks, current_chunk, current_size).
PackLines(lines, done, current_chunk, current_size, limit) ==
    IF lines = <<>> THEN Flush(done, current_chunk)
    ELSE LET line == Head(lines)
             line_size == Len(line) + 1
         IN IF current_size + line_size > limit
            THEN PackLines(Tail(lines), Flush(done, current_chunk),
                           <<line>>, line_size, limit)
            ELSE PackLines(Tail(lines), done, Append(current_chunk, line),
                           current_size + line_size, limit)

\* A chunker that packs lines up to two characters past the limit.
ChunkContentWide(text, limit) ==
    IF Len(text) <= limit THEN <<text>>
    ELSE PackLines(SplitOn(text, NL), <<>>, <<>>, 0, limit + 2)

\* GeminiAPI._chunk_content, for a text and a value of MAX_CHUNK_SIZE.
ChunkContent(text, limit) ==
    IF Len(text) <= limit THEN <<text>>
    ELSE PackLines(SplitOn(text, NL), <<>>, <<>>, 0, limit)

\* The texts of at most n characters, made of a letter and the newline.
Texts(n) ==
    UNION {[1..k -> {"x", NL}] : k \in 0..n}

\* _check_rate_limit line 44: the window that started at `last` is over.
WindowExpired(current_time, last) == current_time - last >= Window

\* A ceiling test that lets one call more through.
AtCeilingLate(requests) == requests > Ceiling

\* _check_rate_limit line 48: the counter has reached the ceiling.
AtCeiling(requests) == requests >= Ceiling

\* A sleep of the whole window, whatever has elapsed.
SleepTimeWholeWindow(current_time, last) == Window

\* _check_rate_limit line 49: the time left in the window.
SleepTime(current_time, last) == Window - (current_time - last)

\* The limiter state after one call of _check_rate_limit made at
\* current_time (lines 43-56); `late` is how long time.sleep overslept.
RateLimited(current_time, requests, last, late) ==
    LET expired == WindowExpired(current_time, last)
        r == IF expired THEN 0 ELSE requests
        l == IF expired THEN current_time ELSE last
        sleep_time == SleepTime(current_time, l)
    IN IF AtCeiling(r) /\ sleep_time > 0
       THEN [now |-> current_time + sleep_time + late,
             requests |-> 0 + 1,
             last |-> current_time + sleep_time + late,
             slept |-> sleep_time]
       ELSE [now |-> current_time, requests |-> r + 1, last |-> l,
             slept |-> 0]

\* @retry(stop=stop_after_attempt(3), ...), gemini_api.py line 83.
StopAfterAttempt == 3

\* A stop condition that allows one attempt more.
StopAfterOneMore(attempt) == attempt >= StopAfterAttempt + 1

\* tenacity's stop_after_attempt: no retry after the attempt numbered
\* `attempt`.
Stop(attempt) == attempt >= StopAfterAttempt

\* wait_exponential(multiplier=1, min=4, max=10), gemini_api.py line 83.
Multiplier == 1
WaitMin == 4
WaitMax == 10

\* time.sleep(5) after an HTTP 429, gemini_api.py line 117.
CoolDown == 5

Min2(a, b) == IF a <= b THEN a ELSE b
Max2(a, b) == IF a >= b THEN a ELSE b

\* An exponential wait without the lower clamp.
WaitExponentialUnclamped(attempt) ==
    Min2(Multiplier * 2 ^ (attempt - 1), WaitMax)

\* tenacity's wait_exponential after the attempt numbered `attempt`:
\* multiplier * 2^(attempt - 1), clamped to [min, max].
WaitExponential(attempt) ==
    Max2(Max2(0, WaitMin), Min2(Multiplier * 2 ^ (attempt - 1), WaitMax))

\* What the backend can answer to one request (lines 110-126): generated
\* text, a network or HTTP error, HTTP 429, a body without candidates, a
\* body that is not JSON or whose first candidate has no text.
BackendOutcomes == {"ok", "error", "429", "empty", "malformed"}

\* Candidate texts, as sequences of words and blanks.
BackendTexts ==
    {<<"Client Meeting">>, <<" ", "Client Meeting", " ">>,
     <<"client meeting">>, <<" ">>}

\* An attempt that takes a body without candidates for an empty text.
AttemptResultEmptyIsText(outcome, text) ==
    IF outcome = "ok" THEN [raised |-> FALSE, value |-> Strip(text)]
    ELSE IF outcome = "empty" THEN [raised |-> FALSE, value |-> <<>>]
         ELSE [raised |-> TRUE, value |-> <<>>]

\* _generate_with_retry lines 115-130, one attempt: 429, an HTTP error, no
\* candidates and a malformed body raise; otherwise the first candidate's
\* text, stripped, is returned.
AttemptResult(outcome, text) ==
    IF outcome = "ok" THEN [raised |-> FALSE, value |-> Strip(text)]
    ELSE [raised |-> TRUE, value |-> <<>>]

\* _generate_with_retry lines 88-92: the text posted for a prompt, its first
\* chunk when it splits.
PromptSent(p, limit) ==
    LET split == ChunkContent(p, limit)
    IN IF Len(split) > 1 THEN split[1] ELSE p

\* The public operations of GeminiAPI.
Operations ==
    {"determine_meeting_type", "summarize_transcript",
     "generate_chat_summary", "generate_user_validation_summary"}

\* Python's None, as a value no text equals.
None == <<"None">>

\* The instructions that precede the transcript in every prompt.
Preamble == <<"p", NL>>

\* Transcripts: one line, two lines within the chunk limit, two lines
\* beyond it.
TranscriptTexts ==
    {<<"x">>, <<"x", NL, "x">>, <<"x", "x", NL, "x", "x">>}

\* The closed set of labels of determine_meeting_type.
ValidCategories ==
    {"Daily Team Meeting", "Investor Meeting", "Client Meeting",
     "HR & Recruitment", "User Research Meeting",
     "Product Development Meeting", "Other"}

\* FOLDER_MAPPING (environment, read by setup_apis): the deployment modelled
\* has a destination folder for every category but "Other".
FolderMapping == ValidCategories \ {"Other"}

NoType == "none"

\* A classifier that returns the backend's text as it is.
NormalizeCategoryRaw(result) == result

\* determine_meeting_type line 166: the result when it is one of the valid
\* categories, else "Other".
NormalizeCategory(result) ==
    IF result \in {<<c>> : c \in ValidCategories} THEN result ELSE <<"Other">>

\* An operation that lets the exception of the call through.
OnExceptionReraise(o) == [raised |-> TRUE, value |-> <<>>]

\* The except clauses of the operations (lines 168-170, 211-213, 241-243,
\* 279-281): the exception is logged and the failure value returned.
OnException(o) ==
    [raised |-> FALSE,
     value |-> IF o = "determine_meeting_type" THEN <<"Other">> ELSE None]

\* A loop that keeps only the summary of the part just done.
KeepSummaryLastOnly(sums, summary) == <<summary>>

\* summarize_transcript lines 200-201: a part's summary is kept when it is
\* not empty.
KeepSummary(sums, summary) ==
    IF summary # <<>> THEN Append(sums, summary) ELSE sums

RECURSIVE PartList(_)
\* summarize_transcript line 206: the part summaries under their headers,
\* two newlines between them.
PartList(sums) ==
    IF sums = <<>> THEN <<>>
    ELSE <<"P", NL>> \o Head(sums)
            \o (IF Len(sums) > 1 THEN <<NL, NL>> \o PartList(Tail(sums))
                ELSE <<>>)

\* summarize_transcript lines 205-206: the prompt of the merge call.
CombinedPrompt(sums) == <<"c", NL, NL>> \o PartList(sums)

VARIABLES
    \* --- the document store (persists across invocations)
    created_today,     \* per document: createdTime's date is today's date
    processed,         \* properties.meeting_processed == 'true'
    appends,           \* number of summaries inserted into the body
    copies,            \* number of copies made in destination folders
    \* --- one invocation of handle_request
    invocation,        \* number of invocations started so far
    pc,                \* position of the handler
    users,             \* the identities handle_request iterates
    user_idx,          \* index into users of the identity being processed
    new_files,         \* result of get_new_meet_files for this identity:
                       \* the file being processed, then those still to come
    processed_titles,  \* the shared per-invocation title set
    meeting_type,      \* classification of the file being processed
    results,           \* the report being built
    http_status,       \* status of the last response (0: none yet)
    \* --- history of the current invocation (reset when one starts)
    startProcessed,    \* the processed flags when the invocation started
    startAppends,      \* the append counts when the invocation started
    startCopies,       \* the copy counts when the invocation started
    misread,           \* documents of new_files listed although flagged
                       \* processed (their flag read raised)
    stages,            \* per document: the stages completed, in order
    fail,              \* per document: the stage that failed, or "none"
    prevFail,          \* documents whose append or copy failed in the
                       \* previous invocation (kept by HandleRequestTracked)
    \* --- one call of GeminiAPI._chunk_content
    chunk_pc,          \* "idle", "called" or "returned"
    content,           \* the text, a sequence of characters
    max_chunk_size,    \* self.MAX_CHUNK_SIZE
    chunks,            \* the list returned
    \* --- the rate limiter of one GeminiAPI object
    now,               \* time.time(), in seconds since construction
    requests_in_minute,
    last_request_time,
    admitted,          \* history: the times at which calls were admitted
    slept,             \* history: the sleep of the last admission (0: none)
    \* --- one public operation of GeminiAPI and its _generate_with_retry calls
    op,                \* the operation being executed, or "none"
    op_pc,             \* "idle", "single", "part", "combine" or "returned"
    transcript_text,   \* the operation's argument
    parts,             \* summarize_transcript: the chunks still to summarize
    summaries,         \* summarize_transcript: the part summaries collected
    op_result,         \* what the operation returned
    prompt,            \* the prompt of the current _generate_with_retry call
    gen_pc,            \* "idle", "attempt", "failed", "returned" or "raised"
    attempt_number,    \* tenacity's attempt number of the current call
    gen_result,        \* the text the current call returned
    outcomes,          \* history: the backend's answer to each attempt
    texts,             \* history: the candidate text of each attempt
    sent,              \* history: the text posted by each attempt
    trace              \* history: admissions, requests and sleeps of the call

store == <<created_today, processed, appends, copies>>
run == <<invocation, pc, users, user_idx, new_files, processed_titles,
         meeting_type, results, http_status>>
snapshot == <<startProcessed, startAppends, startCopies, prevFail>>
history == <<snapshot, misread, stages, fail>>
chunker == <<chunk_pc, content, max_chunk_size, chunks>>
limiter == <<now, requests_in_minute, last_request_time, admitted, slept>>
operation == <<op, op_pc, transcript_text, parts, summaries, op_result>>
retried == <<prompt, gen_pc, attempt_number, gen_result, outcomes, texts, sent,
             trace>>
generator == <<operation, retried>>
pipeline == <<store, run, history>>
vars == <<pipeline, chunker, limiter, generator>>

\* ----------------------------------------------------------------- helpers
RECURSIVE SeqOf(_)
\* The members of a set of documents in listing order.
SeqOf(S) ==
    IF S = {} THEN <<>>
    ELSE LET m == CHOOSE x \in S : \A y \in S : x <= y
         IN <<m>> \o SeqOf(S \ {m})

SameTitle(name) == {t \in Transcripts : Title(t) = name}

Count(s, x) == Cardinality({i \in 1..Len(s) : s[i] = x})

Has(s, x) == \E i \in 1..Len(s) : s[i] = x

CurFile == Head(new_files)

\* ---------------------------------------------------------- pure decisions
\* A has_been_processed that reports every document as unprocessed.
HasBeenProcessedNever(flag, readOk) == FALSE

\* DriveAPI.has_been_processed: the flag, or False when the read raises.
HasBeenProcessed(flag, readOk) == IF readOk THEN flag ELSE FALSE

\* main.py line 80: created_time.date() != today
NotCreatedToday(t) == ~created_today[t]

\* A title check that never finds the title.
IsDuplicateTitleNever(name, titles) == FALSE

\* main.py line 83: file_name in processed_titles
IsDuplicateTitle(name, titles) == name \in titles

\* A folder mapping in which every type has a destination.
HasDestinationAlways(mtype) == TRUE

\* main.py line 137: meeting_type in drive_api.folder_mapping
HasDestination(mtype) == mtype \in FolderMapping

\* A routing that sends every type but the daily one to the validation space.
NotifyChannelAny(mtype) ==
    IF mtype = "Daily Team Meeting" THEN "daily" ELSE "validation"

\* main.py lines 144/160: which chat client, if any, gets the summary.
NotifyChannel(mtype) ==
    IF mtype = "Daily Team Meeting" THEN "daily"
    ELSE IF mtype \in {"User Research Meeting", "Product Development Meeting"}
         THEN "validation"
         ELSE "none"

\* mark_all_with_title_as_processed: the documents the name query returns.
MarkTargets(name) == SameTitle(name)

\* A handler that keeps the title set of the previous invocation.
FreshTitlesKept(old) == old

\* handle_request line 201: the title set a new invocation starts with.
FreshTitles(old) == {}

\* -------------------------------------------------------------------- Init
\* No _chunk_content call is being looked at.
ChunkerIdle ==
    /\ chunk_pc = "idle"
    /\ content = <<>>
    /\ max_chunk_size = 0
    /\ chunks = <<>>

\* The rate limiter as GeminiAPI.__init__ leaves it (lines 17-18), at time 0.
LimiterIdle ==
    /\ now = 0
    /\ requests_in_minute = 0
    /\ last_request_time = 0
    /\ admitted = <<>>
    /\ slept = 0

\* No call of an operation of GeminiAPI has begun.
NoCall ==
    /\ op_pc = "idle"
    /\ parts = <<>>
    /\ summaries = <<>>
    /\ op_result = <<>>
    /\ prompt = <<>>
    /\ gen_pc = "idle"
    /\ attempt_number = 0
    /\ gen_result = <<>>
    /\ outcomes = <<>>
    /\ texts = <<>>
    /\ sent = <<>>
    /\ trace = <<>>

\* No operation of GeminiAPI is being looked at.
GeneratorIdle ==
    /\ op = "none"
    /\ transcript_text = <<>>
    /\ NoCall

\* The store holds documents recorded before today and today, oldest first;
\* nothing has been processed yet.
Init ==
    /\ \E k \in 0..NumTranscripts :
          created_today = [t \in Transcripts |-> t > k]
    /\ processed = [t \in Transcripts |-> FALSE]
    /\ appends = [t \in Transcripts |-> 0]
    /\ copies = [t \in Transcripts |-> 0]
    /\ invocation = 0
    /\ pc = "idle"
    /\ users = TwoUsers
    /\ user_idx = 0
    /\ new_files = <<>>
    /\ processed_titles = {}
    /\ meeting_type = NoType
    /\ results = <<>>
    /\ http_status = 0
    /\ startProcessed = [t \in Transcripts |-> FALSE]
    /\ startAppends = [t \in Transcripts |-> 0]
    /\ startCopies = [t \in Transcripts |-> 0]
    /\ misread = {}
    /\ stages = [t \in Transcripts |-> <<>>]
    /\ fail = [t \in Transcripts |-> "none"]
    /\ prevFail = {}
    /\ ChunkerIdle
    /\ LimiterIdle
    /\ GeneratorIdle

\* ------------------------------------------------------------ control flow
\* The identity's pass is over: handle_request appends its record and takes
\* the next identity, or returns the report.
EndUser ==
    /\ results' = Append(results, [user |-> users[user_idx], status |-> "success"])
    /\ new_files' = <<>>
    /\ meeting_type' = NoType
    /\ misread' = {}
    /\ UNCHANGED users
    /\ IF user_idx < Len(users)
       THEN user_idx' = user_idx + 1 /\ pc' = "discover"
            /\ UNCHANGED http_status
       ELSE user_idx' = 0 /\ pc' = "idle" /\ http_status' = 200

\* A `continue` that leaves the loop: the pass ends at the first file done.
NextFileAborts == EndUser

\* `continue` (or the end of the loop body): the next file of the list.
NextFile ==
    IF Len(new_files) > 1
    THEN /\ new_files' = Tail(new_files)
         /\ pc' = "file"
         /\ meeting_type' = NoType
         /\ misread' = misread \ {CurFile}
         /\ UNCHANGED <<users, user_idx, results, http_status>>
    ELSE EndUser

\* The current file goes on to the next stage.
Goto(stage) ==
    /\ pc' = stage
    /\ UNCHANGED <<users, user_idx, new_files, results, http_status, misread>>

Done(t, stage) == stages' = [stages EXCEPT ![t] = Append(@, stage)]
Failed(t, stage) == fail' = [fail EXCEPT ![t] = stage]

\* ----------------------------------------------------------------- actions
\* A day passes between two invocations: no document is of today any more.
DayPasses ==
    /\ pc = "idle"
    /\ \E t \in Transcripts : created_today[t]
    /\ created_today' = [t \in Transcripts |-> FALSE]
    /\ UNCHANGED <<processed, appends, copies, run, history>>
    /\ UNCHANGED <<chunker, limiter, generator>>

\* handle_request up to the first identity: a fresh processed_titles set.
\* `track` says whether the history keeps the previous invocation's failures.
Start(track) ==
    /\ pc = "idle"
    /\ invocation < MaxInvocations
    /\ invocation' = invocation + 1
    /\ pc' = "discover"
    /\ user_idx' = 1
    /\ processed_titles' = FreshTitles(processed_titles)
    /\ results' = <<>>
    /\ http_status' = 0
    /\ startProcessed' = processed
    /\ startAppends' = appends
    /\ startCopies' = copies
    /\ prevFail' = IF track
                   THEN {t \in Transcripts : fail[t] \in {"append", "copy"}}
                   ELSE {}
    /\ stages' = [t \in Transcripts |-> <<>>]
    /\ fail' = [t \in Transcripts |-> "none"]
    /\ UNCHANGED <<store, users, new_files, meeting_type, misread>>
    /\ UNCHANGED <<chunker, limiter, generator>>

HandleRequest == Start(FALSE)

HandleRequestTracked == Start(TRUE)

\* get_new_meet_files raised inside (the folder search failed): it returns
\* [], and process_meet_files returns at once.
DiscoverFails ==
    /\ pc = "discover"
    /\ EndUser
    /\ UNCHANGED <<store, invocation, processed_titles, snapshot, stages,
                   fail>>
    /\ UNCHANGED <<chunker, limiter, generator>>

\* get_new_meet_files lists the documents and keeps those for which
\* has_been_processed is false; each flag read succeeds or raises.
Discover ==
    /\ pc = "discover"
    /\ \E bad \in SUBSET Transcripts :
          LET found == {t \in Transcripts :
                           ~HasBeenProcessed(processed[t], t \notin bad)}
          IN IF found = {}
             THEN EndUser
             ELSE /\ new_files' = SeqOf(found)
                  /\ misread' = {t \in found : processed[t] /\ t \in bad}
                  /\ pc' = "file"
                  /\ UNCHANGED <<users, user_idx, meeting_type, results,
                                 http_status>>
    /\ UNCHANGED <<store, invocation, processed_titles, snapshot, stages,
                   fail>>
    /\ UNCHANGED <<chunker, limiter, generator>>

\* main.py lines 72-86: files().get of the current file returns its
\* metadata or raises; then the created-today filter and the title dedup; a
\* file that passes claims its title.
ReadMetadata ==
    /\ pc = "file"
    /\ \E ok \in BOOLEAN :
          IF ~ok
          THEN /\ Goto("file_error")
               /\ UNCHANGED <<processed_titles, stages, meeting_type>>
          ELSE IF \/ NotCreatedToday(CurFile)
                  \/ IsDuplicateTitle(Title(CurFile), processed_titles)
               THEN /\ NextFile
                    /\ UNCHANGED <<processed_titles, stages>>
               ELSE /\ processed_titles' =
                          processed_titles \cup {Title(CurFile)}
                    /\ Done(CurFile, "claim")
                    /\ Goto("export")
                    /\ UNCHANGED meeting_type
    /\ UNCHANGED <<store, invocation, snapshot, fail>>
    /\ UNCHANGED <<chunker, limiter, generator>>

\* A metadata failure after which the same file is read again.
MetadataErrorRetries ==
    /\ pc = "file_error"
    /\ pc' = "file"
    /\ UNCHANGED <<store, invocation, users, user_idx, new_files,
                   processed_titles, meeting_type, results, http_status,
                   history>>
    /\ UNCHANGED <<chunker, limiter, generator>>

\* main.py lines 182-184: the exception of the metadata read is logged and
\* the loop continues.
MetadataError ==
    /\ pc = "file_error"
    /\ NextFile
    /\ UNCHANGED <<store, invocation, processed_titles, snapshot, stages,
                   fail>>
    /\ UNCHANGED <<chunker, limiter, generator>>

\* An export after which the summary is made without the classification.
ExportThenSummarize ==
    /\ pc = "export"
    /\ \E ok \in BOOLEAN :
          IF ok
          THEN Goto("summarize") /\ UNCHANGED <<meeting_type, fail>>
          ELSE Failed(CurFile, "export") /\ NextFile
    /\ UNCHANGED <<store, invocation, processed_titles, snapshot, stages>>
    /\ UNCHANGED <<chunker, limiter, generator>>

\* main.py lines 89-96: the plain-text export; it raises or is empty (next
\* file), or gives the content.
Export ==
    /\ pc = "export"
    /\ \E ok \in BOOLEAN :
          IF ok
          THEN Goto("classify") /\ UNCHANGED <<meeting_type, fail>>
          ELSE Failed(CurFile, "export") /\ NextFile
    /\ UNCHANGED <<store, invocation, processed_titles, snapshot, stages>>
    /\ UNCHANGED <<chunker, limiter, generator>>

\* main.py line 98: determine_meeting_type returns one of the valid
\* categories ("Other" for any other output and for any failure).
Classify ==
    /\ pc = "classify"
    /\ \E label \in ValidCategories : meeting_type' = label
    /\ Done(CurFile, "classify")
    /\ Goto("summarize")
    /\ UNCHANGED <<store, invocation, processed_titles, snapshot, fail>>
    /\ UNCHANGED <<chunker, limiter, generator>>

\* A summary stage whose empty result does not stop the file.
SummarizeUnchecked ==
    /\ pc = "summarize"
    /\ \E ok \in BOOLEAN :
          /\ IF ok
             THEN Done(CurFile, "summarize") /\ UNCHANGED fail
             ELSE Failed(CurFile, "summarize") /\ UNCHANGED stages
          /\ Goto("append")
          /\ UNCHANGED meeting_type
    /\ UNCHANGED <<store, invocation, processed_titles, snapshot>>
    /\ UNCHANGED <<chunker, limiter, generator>>

\* main.py lines 100-104: summarize_transcript returns text, or None/empty.
Summarize ==
    /\ pc = "summarize"
    /\ \E ok \in BOOLEAN :
          IF ok
          THEN /\ Done(CurFile, "summarize")
               /\ Goto("append")
               /\ UNCHANGED <<meeting_type, fail>>
          ELSE /\ Failed(CurFile, "summarize")
               /\ NextFile
               /\ UNCHANGED stages
    /\ UNCHANGED <<store, invocation, processed_titles, snapshot>>
    /\ UNCHANGED <<chunker, limiter, generator>>

\* An append stage whose failure does not stop the file.
AppendSummaryUnchecked ==
    /\ pc = "append"
    /\ \E ok \in BOOLEAN :
          /\ appends' = [appends EXCEPT ![CurFile] = IF ok THEN @ + 1 ELSE @]
          /\ Done(CurFile, "append")
          /\ Goto("copy")
          /\ UNCHANGED <<meeting_type, fail>>
    /\ UNCHANGED <<created_today, processed, copies, invocation,
                   processed_titles, snapshot>>
    /\ UNCHANGED <<chunker, limiter, generator>>

\* main.py lines 105-136: documents().get and batchUpdate insert the summary
\* at the end of the body; any exception skips the rest of the file.
AppendSummary ==
    /\ pc = "append"
    /\ \E ok \in BOOLEAN :
          IF ok
          THEN /\ appends' = [appends EXCEPT ![CurFile] = @ + 1]
               /\ Done(CurFile, "append")
               /\ Goto("copy")
               /\ UNCHANGED <<meeting_type, fail>>
          ELSE /\ Failed(CurFile, "append")
               /\ NextFile
               /\ UNCHANGED <<appends, stages>>
    /\ UNCHANGED <<created_today, processed, copies, invocation,
                   processed_titles, snapshot>>
    /\ UNCHANGED <<chunker, limiter, generator>>

\* A copy stage whose result is not read: the file goes on to the mark.
CopyFileUnchecked ==
    /\ pc = "copy"
    /\ IF ~HasDestination(meeting_type)
       THEN /\ Failed(CurFile, "unmapped")
            /\ NextFile
            /\ UNCHANGED <<copies, stages>>
       ELSE \E ok \in BOOLEAN :
               /\ copies' = [copies EXCEPT ![CurFile] = IF ok THEN @ + 1 ELSE @]
               /\ IF ok THEN Done(CurFile, "copy") ELSE UNCHANGED stages
               /\ Goto("mark")
               /\ UNCHANGED <<meeting_type, fail>>
    /\ UNCHANGED <<created_today, processed, appends, invocation,
                   processed_titles, snapshot>>
    /\ UNCHANGED <<chunker, limiter, generator>>

\* A copy stage followed by the notification, the mark left out.
CopyFileThenNotify ==
    /\ pc = "copy"
    /\ IF ~HasDestination(meeting_type)
       THEN /\ Failed(CurFile, "unmapped")
            /\ NextFile
            /\ UNCHANGED <<copies, stages>>
       ELSE \E ok \in BOOLEAN :
               IF ok
               THEN /\ copies' = [copies EXCEPT ![CurFile] = @ + 1]
                    /\ Done(CurFile, "copy")
                    /\ Goto(IF NotifyChannel(meeting_type) = "none"
                            THEN "mark"
                            ELSE "notify_" \o NotifyChannel(meeting_type))
                    /\ UNCHANGED <<meeting_type, fail>>
               ELSE /\ Failed(CurFile, "copy")
                    /\ NextFile
                    /\ UNCHANGED <<copies, stages>>
    /\ UNCHANGED <<created_today, processed, appends, invocation,
                   processed_titles, snapshot>>
    /\ UNCHANGED <<chunker, limiter, generator>>

\* main.py lines 137-141 and 176-179 with DriveAPI.copy_file: no destination
\* for the type, or the copy returns False, or the copy is made.
CopyFile ==
    /\ pc = "copy"
    /\ IF ~HasDestination(meeting_type)
       THEN /\ Failed(CurFile, "unmapped")
            /\ NextFile
            /\ UNCHANGED <<copies, stages>>
       ELSE \E ok \in BOOLEAN :
               IF ok
               THEN /\ copies' = [copies EXCEPT ![CurFile] = @ + 1]
                    /\ Done(CurFile, "copy")
                    /\ Goto("mark")
                    /\ UNCHANGED <<meeting_type, fail>>
               ELSE /\ Failed(CurFile, "copy")
                    /\ NextFile
                    /\ UNCHANGED <<copies, stages>>
    /\ UNCHANGED <<created_today, processed, appends, invocation,
                   processed_titles, snapshot>>
    /\ UNCHANGED <<chunker, limiter, generator>>

\* main.py line 142 with DriveAPI.mark_all_with_title_as_processed: every
\* document the name query returns is updated; a failed update is logged and
\* skipped, a failed list call raises (caught at main.py line 182). Then
\* lines 144/160 choose the notification branch.
MarkAllWithTitle ==
    /\ pc = "mark"
    /\ \E updated \in SUBSET MarkTargets(Title(CurFile)), raised \in BOOLEAN :
          /\ processed' = [t \in Transcripts |->
                              IF t \in updated THEN TRUE ELSE processed[t]]
          /\ IF raised
             THEN /\ Failed(CurFile, "mark")
                  /\ NextFile
                  /\ UNCHANGED stages
             ELSE /\ Done(CurFile, "mark")
                  /\ IF NotifyChannel(meeting_type) = "none"
                     THEN NextFile
                     ELSE /\ Goto("notify_" \o NotifyChannel(meeting_type))
                          /\ UNCHANGED meeting_type
                  /\ UNCHANGED fail
    /\ UNCHANGED <<created_today, appends, copies, invocation,
                   processed_titles, snapshot>>
    /\ UNCHANGED <<chunker, limiter, generator>>

\* main.py lines 152-159 / 168-175: generate_chat_summary (daily branch) or
\* generate_user_validation_summary (validation branch) returns text, or
\* None, which is logged.
GenerateChatSummary ==
    /\ pc \in {"notify_daily", "notify_validation"}
    /\ \E ok \in BOOLEAN :
          IF ok
          THEN /\ Done(CurFile, "notify")
               /\ Goto(IF pc = "notify_daily" THEN "post_daily"
                       ELSE "post_validation")
               /\ UNCHANGED meeting_type
          ELSE /\ NextFile
               /\ UNCHANGED stages
    /\ UNCHANGED <<store, invocation, processed_titles, snapshot, fail>>
    /\ UNCHANGED <<chunker, limiter, generator>>

\* main.py lines 157/173 with ChatAPI.send_daily_meeting_summary: one post
\* through chat_api (daily) or validation_chat_api; its result (True/False)
\* is not read.
SendSummary ==
    /\ pc \in {"post_daily", "post_validation"}
    /\ Done(CurFile, "post")
    /\ NextFile
    /\ UNCHANGED <<store, invocation, processed_titles, snapshot, fail>>
    /\ UNCHANGED <<chunker, limiter, generator>>

\* What process_meet_files does for one identity.
ProcessMeetFiles ==
    \/ DiscoverFails
    \/ Discover
    \/ ReadMetadata
    \/ MetadataError
    \/ Export
    \/ Classify
    \/ Summarize
    \/ AppendSummary
    \/ CopyFile
    \/ MarkAllWithTitle
    \/ GenerateChatSummary
    \/ SendSummary

Next ==
    \/ DayPasses
    \/ HandleRequest
    \/ ProcessMeetFiles

Spec == Init /\ [][Next]_vars

\* The same program, with the history of the previous invocation's failed
\* documents kept, from a store whose documents are all of today.
InitTracked ==
    /\ created_today = [t \in Transcripts |-> TRUE]
    /\ processed = [t \in Transcripts |-> FALSE]
    /\ appends = [t \in Transcripts |-> 0]
    /\ copies = [t \in Transcripts |-> 0]
    /\ invocation = 0
    /\ pc = "idle"
    /\ users = OneUser
    /\ user_idx = 0
    /\ new_files = <<>>
    /\ processed_titles = {}
    /\ meeting_type = NoType
    /\ results = <<>>
    /\ http_status = 0
    /\ startProcessed = [t \in Transcripts |-> FALSE]
    /\ startAppends = [t \in Transcripts |-> 0]
    /\ startCopies = [t \in Transcripts |-> 0]
    /\ misread = {}
    /\ stages = [t \in Transcripts |-> <<>>]
    /\ fail = [t \in Transcripts |-> "none"]
    /\ prevFail = {}
    /\ ChunkerIdle
    /\ LimiterIdle
    /\ GeneratorIdle

\* The handler idle, before its first invocation, for the identities `us`
\* and a store whose documents are all of today and unprocessed.
IdlePipeline(us) ==
    /\ created_today = [t \in Transcripts |-> TRUE]
    /\ processed = [t \in Transcripts |-> FALSE]
    /\ appends = [t \in Transcripts |-> 0]
    /\ copies = [t \in Transcripts |-> 0]
    /\ invocation = 0
    /\ pc = "idle"
    /\ users = us
    /\ user_idx = 0
    /\ new_files = <<>>
    /\ processed_titles = {}
    /\ meeting_type = NoType
    /\ results = <<>>
    /\ http_status = 0
    /\ startProcessed = [t \in Transcripts |-> FALSE]
    /\ startAppends = [t \in Transcripts |-> 0]
    /\ startCopies = [t \in Transcripts |-> 0]
    /\ misread = {}
    /\ stages = [t \in Transcripts |-> <<>>]
    /\ fail = [t \in Transcripts |-> "none"]
    /\ prevFail = {}

\* The same program with the identity list read from USERS_TO_PROCESS.
InitUsers ==
    /\ \E raw \in UserConfigs : IdlePipeline(ParseUsers(raw))
    /\ ChunkerIdle
    /\ LimiterIdle
    /\ GeneratorIdle

SpecUsers == InitUsers /\ [][Next]_vars

\* An invocation that goes on after a failed setup and answers 500.
SetupFailsLate ==
    /\ pc = "idle"
    /\ invocation < MaxInvocations
    /\ invocation' = invocation + 1
    /\ pc' = "discover"
    /\ user_idx' = 1
    /\ http_status' = 500
    /\ results' = <<>>
    /\ startProcessed' = processed
    /\ startAppends' = appends
    /\ startCopies' = copies
    /\ prevFail' = {}
    /\ stages' = [t \in Transcripts |-> <<>>]
    /\ fail' = [t \in Transcripts |-> "none"]
    /\ UNCHANGED <<store, users, new_files, processed_titles, meeting_type,
                   misread>>
    /\ UNCHANGED <<chunker, limiter, generator>>

\* handle_request lines 193-195 and 218-221 with setup_apis: a client cannot
\* be constructed (GOOGLE_AI_API_KEY unset, credentials, the Gemini test
\* call, no webhook URL); the exception is caught by the outer handler,
\* which answers 500. The loop over the identities is never entered.
SetupFails ==
    /\ pc = "idle"
    /\ invocation < MaxInvocations
    /\ invocation' = invocation + 1
    /\ http_status' = 500
    /\ results' = <<>>
    /\ startProcessed' = processed
    /\ startAppends' = appends
    /\ startCopies' = copies
    /\ prevFail' = {}
    /\ stages' = [t \in Transcripts |-> <<>>]
    /\ fail' = [t \in Transcripts |-> "none"]
    /\ UNCHANGED <<store, pc, users, user_idx, new_files, processed_titles,
                   meeting_type, misread>>
    /\ UNCHANGED <<chunker, limiter, generator>>

\* The program with setups that fail, for one identity, within one day. The
\* handler runs its steps one after the other and every remote call returns,
\* so a step of process_meet_files that can be taken is taken.
InitSetup ==
    /\ IdlePipeline(OneUser)
    /\ ChunkerIdle
    /\ LimiterIdle
    /\ GeneratorIdle

NextSetup ==
    \/ SetupFails
    \/ HandleRequest
    \/ ProcessMeetFiles

SpecSetup == InitSetup /\ [][NextSetup]_vars /\ WF_vars(ProcessMeetFiles)

\* _generate_with_retry line 89: _chunk_content is called on a prompt.
ChunkContentCall ==
    /\ chunk_pc = "called"
    /\ chunks' = ChunkContent(content, max_chunk_size)
    /\ chunk_pc' = "returned"
    /\ UNCHANGED <<content, max_chunk_size>>
    /\ UNCHANGED <<pipeline, limiter, generator>>

\* Calls of _chunk_content on every text and every limit of the bounds.
InitChunk ==
    /\ IdlePipeline(OneUser)
    /\ LimiterIdle
    /\ GeneratorIdle
    /\ chunk_pc = "called"
    /\ content \in Texts(MaxTextLen)
    /\ max_chunk_size \in 1..MaxLimit
    /\ chunks = <<>>

NextChunk == ChunkContentCall

SpecChunk == InitChunk /\ [][NextChunk]_vars

\* Time passes between two calls of the rate limiter.
Tick ==
    /\ now < MaxTime
    /\ now' = now + 1
    /\ UNCHANGED <<requests_in_minute, last_request_time, admitted, slept>>
    /\ UNCHANGED <<pipeline, chunker, generator>>

\* GeminiAPI._check_rate_limit, whole: a fresh window when the old one is
\* over; at the ceiling, a sleep of the time left (time.sleep returns then
\* or later) and a fresh window at the time read after it; then the call is
\* counted.
CheckRateLimit ==
    LET current_time == now
        expired == WindowExpired(current_time, last_request_time)
        requests == IF expired THEN 0 ELSE requests_in_minute
        last == IF expired THEN current_time ELSE last_request_time
        sleep_time == SleepTime(current_time, last)
    IN /\ IF AtCeiling(requests) /\ sleep_time > 0
          THEN \E late \in 0..1 :
                  /\ now' = current_time + sleep_time + late
                  /\ requests_in_minute' = 0 + 1
                  /\ last_request_time' = now'
                  /\ slept' = sleep_time
          ELSE /\ now' = now
               /\ requests_in_minute' = requests + 1
               /\ last_request_time' = last
               /\ slept' = 0
       /\ now' <= MaxTime
       /\ admitted' = Append(admitted, now')
       /\ UNCHANGED <<pipeline, chunker, generator>>

\* One GeminiAPI object whose rate limiter is called at any times.
InitLimiter ==
    /\ IdlePipeline(OneUser)
    /\ ChunkerIdle
    /\ LimiterIdle
    /\ GeneratorIdle

NextLimiter ==
    \/ Tick
    \/ CheckRateLimit

SpecLimiter == InitLimiter /\ [][NextLimiter]_vars

NextTracked ==
    \/ DayPasses
    \/ HandleRequestTracked
    \/ ProcessMeetFiles

SpecTracked == InitTracked /\ [][NextTracked]_vars

\* ------------------------------------------------- the text-generation client
\* A call of _generate_with_retry with prompt p begins: tenacity's first
\* attempt.
Generate(p) ==
    /\ prompt' = p
    /\ gen_pc' = "attempt"
    /\ attempt_number' = 1
    /\ gen_result' = <<>>
    /\ outcomes' = <<>>
    /\ texts' = <<>>
    /\ sent' = <<>>
    /\ trace' = <<>>

\* The operation returns (or raises) and no call is in progress.
Return(r) ==
    /\ op_result' = r.value
    /\ op_pc' = IF r.raised THEN "raised" ELSE "returned"
    /\ gen_pc' = "idle"
    /\ UNCHANGED <<prompt, attempt_number, gen_result, outcomes, texts, sent,
                   trace>>

\* The pipeline calls the operation on the transcript: the operation
\* builds its first prompt and calls _generate_with_retry (lines 154-157,
\* 175-186, 191-199, 236-238, 274-276).
CallOperation ==
    /\ op_pc = "idle"
    /\ op \in Operations
    /\ LET split == ChunkContent(transcript_text, max_chunk_size)
       IN /\ op_result' = <<>>
          /\ summaries' = <<>>
          /\ IF op = "summarize_transcript" /\ Len(split) > 1
             THEN /\ op_pc' = "part"
                  /\ parts' = split
                  /\ Generate(Preamble \o split[1])
             ELSE /\ op_pc' = "single"
                  /\ parts' = <<>>
                  /\ Generate(Preamble \o
                                 (IF op \in {"determine_meeting_type",
                                             "summarize_transcript"}
                                  THEN split[1] ELSE transcript_text))
    /\ UNCHANGED <<op, transcript_text>>
    /\ UNCHANGED <<pipeline, chunker, limiter>>

\* One execution of the body of _generate_with_retry (lines 86-130): the
\* rate limiter, the prompt cut to its first chunk, the request, the
\* cool-down after a 429, and the text returned or the exception raised.
Attempt ==
    /\ gen_pc = "attempt"
    /\ \E late \in 0..1, outcome \in BackendOutcomes, text \in BackendTexts :
          LET a == RateLimited(now, requests_in_minute, last_request_time,
                               late)
              r == AttemptResult(outcome, text)
          IN /\ requests_in_minute' = a.requests
             /\ last_request_time' = a.last
             /\ slept' = a.slept
             /\ admitted' = Append(admitted, a.now)
             /\ now' = a.now + (IF outcome = "429" THEN CoolDown ELSE 0)
             /\ sent' = Append(sent, PromptSent(prompt, max_chunk_size))
             /\ outcomes' = Append(outcomes, outcome)
             /\ texts' = Append(texts, IF outcome = "ok" THEN text ELSE <<>>)
             /\ trace' = trace \o <<<<"admit", a.slept>>,
                                    <<"request", attempt_number>>>>
                               \o (IF outcome = "429"
                                   THEN <<<<"cooldown", CoolDown>>>>
                                   ELSE <<>>)
             /\ gen_pc' = IF r.raised THEN "failed" ELSE "returned"
             /\ gen_result' = r.value
    /\ UNCHANGED <<operation, prompt, attempt_number>>
    /\ UNCHANGED <<pipeline, chunker>>

\* The @retry decorator (line 83) after an attempt raised: after the last
\* attempt of the budget it raises RetryError; before, it sleeps the
\* exponential wait and calls the function again.
Retry ==
    /\ gen_pc = "failed"
    /\ IF Stop(attempt_number)
       THEN /\ gen_pc' = "raised"
            /\ UNCHANGED <<now, attempt_number, trace>>
       ELSE /\ gen_pc' = "attempt"
            /\ attempt_number' = attempt_number + 1
            /\ now' = now + WaitExponential(attempt_number)
            /\ trace' = Append(trace, <<"backoff",
                                        WaitExponential(attempt_number)>>)
    /\ UNCHANGED <<operation, prompt, gen_result, outcomes, texts, sent>>
    /\ UNCHANGED <<requests_in_minute, last_request_time, admitted, slept>>
    /\ UNCHANGED <<pipeline, chunker>>

\* determine_meeting_type lines 157-170, after the call.
DetermineMeetingType ==
    /\ op = "determine_meeting_type" /\ op_pc = "single"
    /\ gen_pc \in {"returned", "raised"}
    /\ IF gen_pc = "raised"
       THEN Return(OnException(op))
       ELSE Return([raised |-> FALSE, value |-> NormalizeCategory(gen_result)])
    /\ UNCHANGED <<op, transcript_text, parts, summaries>>
    /\ UNCHANGED <<pipeline, chunker, limiter>>

\* summarize_transcript lines 186-213, after a call: the single call's
\* text is returned; a part's summary is kept when it is not empty and the
\* next part, or the merge of the summaries, is requested; with no summary
\* kept, None is returned.
SummarizeTranscript ==
    /\ op = "summarize_transcript"
    /\ op_pc \in {"single", "part", "combine"}
    /\ gen_pc \in {"returned", "raised"}
    /\ IF gen_pc = "raised"
       THEN Return(OnException(op)) /\ UNCHANGED <<parts, summaries>>
       ELSE IF op_pc \in {"single", "combine"}
            THEN /\ Return([raised |-> FALSE, value |-> gen_result])
                 /\ UNCHANGED <<parts, summaries>>
            ELSE LET kept == KeepSummary(summaries, gen_result)
                 IN /\ summaries' = kept
                    /\ parts' = Tail(parts)
                    /\ IF Len(parts) > 1
                       THEN /\ Generate(Preamble \o parts[2])
                            /\ UNCHANGED <<op_pc, op_result>>
                       ELSE IF kept # <<>>
                            THEN /\ op_pc' = "combine"
                                 /\ Generate(CombinedPrompt(kept))
                                 /\ UNCHANGED op_result
                            ELSE Return([raised |-> FALSE, value |-> None])
    /\ UNCHANGED <<op, transcript_text>>
    /\ UNCHANGED <<pipeline, chunker, limiter>>

\* generate_chat_summary lines 238-243 and
\* generate_user_validation_summary lines 276-281, after the call.
ChatSummary ==
    /\ op \in {"generate_chat_summary", "generate_user_validation_summary"}
    /\ op_pc = "single"
    /\ gen_pc \in {"returned", "raised"}
    /\ IF gen_pc = "raised"
       THEN Return(OnException(op))
       ELSE Return([raised |-> FALSE,
                    value |-> IF gen_result # <<>> THEN Strip(gen_result)
                              ELSE None])
    /\ UNCHANGED <<op, transcript_text, parts, summaries>>
    /\ UNCHANGED <<pipeline, chunker, limiter>>

\* One GeminiAPI object on which an operation is called with a transcript
\* within the chunk size, after up to Ceiling calls were admitted in the
\* window that started with the object.
InitRetry ==
    /\ IdlePipeline(OneUser)
    /\ now = 0
    /\ last_request_time = 0
    /\ requests_in_minute \in 0..Ceiling
    /\ admitted = [i \in 1..requests_in_minute |-> 0]
    /\ slept = 0
    /\ op \in Operations
    /\ transcript_text \in {t \in TranscriptTexts : Len(t) <= MaxLimit}
    /\ NoCall
    /\ chunk_pc = "idle"
    /\ content = <<>>
    /\ max_chunk_size = MaxLimit
    /\ chunks = <<>>

NextRetry ==
    \/ CallOperation
    \/ Attempt
    \/ Retry
    \/ DetermineMeetingType
    \/ SummarizeTranscript
    \/ ChatSummary

SpecRetry == InitRetry /\ [][NextRetry]_vars

\* A GeminiAPI object just constructed, on which summarize_transcript is
\* called with a transcript longer than the chunk size.
InitParts ==
    /\ IdlePipeline(OneUser)
    /\ LimiterIdle
    /\ op = "summarize_transcript"
    /\ transcript_text \in {t \in TranscriptTexts : Len(t) > MaxLimit}
    /\ NoCall
    /\ chunk_pc = "idle"
    /\ content = <<>>
    /\ max_chunk_size = MaxLimit
    /\ chunks = <<>>

NextParts ==
    \/ CallOperation
    \/ Attempt
    \/ Retry
    \/ SummarizeTranscript

SpecParts == InitParts /\ [][NextParts]_vars

\* ------------------------------------------------------------- observations
\* The pipeline has taken a document past the filters in this invocation.
Attempted(t) == stages[t] # <<>>

\* The positions at which a file of new_files is being processed.
StagePcs ==
    {"export", "classify", "summarize", "append", "copy", "mark",
     "notify_daily", "notify_validation", "post_daily", "post_validation"}

\* An invocation has run to its report.
AtReport == pc = "idle" /\ invocation >= 1

C3_AtMostOnce ==
    \A t \in Transcripts : appends[t] <= 1 /\ copies[t] <= 1

\* ---------------------------------------------------------------------- C4
\* C4: a transcript flagged processed when the invocation starts is not
\* returned by discovery and is not processed again.
C4_MarkedIsSkipped ==
    \A t \in Transcripts :
       startProcessed[t] => ~Attempted(t) /\ ~Has(new_files, t)

\* ---------------------------------------------------------------------- C5
\* C5: a transcript that an invocation attempted and that is still unmarked
\* when it reports had no summary appended and no copy made by it.
C5_NoPartialState ==
    AtReport =>
       \A t \in Transcripts :
          Attempted(t) /\ ~processed[t] =>
             appends[t] = startAppends[t] /\ copies[t] = startCopies[t]

\* ---------------------------------------------------------------------- C6
StageNames ==
    {"claim", "classify", "summarize", "append", "copy", "mark", "notify",
     "post"}

\* C6: within one invocation, over all identities, at most one transcript
\* of a title is processed, and it goes through each stage at most once
\* (at most one summary appended, at most one copy made).
C6_OneTranscriptPerTitle ==
    \A t \in Transcripts :
       /\ \A st \in StageNames : Count(stages[t], st) <= 1
       /\ appends[t] <= startAppends[t] + 1
       /\ copies[t] <= startCopies[t] + 1
       /\ \A u \in SameTitle(Title(t)) \ {t} :
             ~(Attempted(t) /\ Attempted(u))

\* The second identity's discovery returns two unmarked transcripts of one
\* title, the first of which the first identity's pass already processed.
C6_Witness ==
    /\ user_idx = 2 /\ pc = "file" /\ Len(new_files) = 2
    /\ Attempted(new_files[1])
    /\ ~Attempted(new_files[2])
    /\ Title(new_files[1]) = Title(new_files[2])

\* ---------------------------------------------------------------------- C7
\* Two transcripts of one title, both unmarked when the invocation started,
\* one of which the invocation took up (so its discovery returned both).
DiscoveredPair(t, u) ==
    /\ t < u /\ Title(t) = Title(u)
    /\ ~startProcessed[t] /\ ~startProcessed[u]
    /\ Attempted(t) \/ Attempted(u)

StagesBeforeMark == {"export", "summarize", "append", "unmapped", "copy"}

\* C7 as stated: of two same-title transcripts discovered in one run, the
\* first is summarized and filed, the second is skipped, and both are marked
\* when the run reports.
C7_FirstFiledBothMarked ==
    AtReport =>
       \A t, u \in Transcripts :
          DiscoveredPair(t, u) =>
             /\ Has(stages[t], "copy") /\ ~Attempted(u)
             /\ processed[t] /\ processed[u]

\* C7: of two same-title transcripts discovered in one run at most one is
\* processed; a transcript becomes marked in the run only when that one was
\* summarized and copied; when it failed before the mark step, the run marks
\* neither.
C7_OneFiledMarksByTitle ==
    \A t, u \in Transcripts :
       DiscoveredPair(t, u) =>
          /\ ~(Attempted(t) /\ Attempted(u))
          /\ \A d \in {t, u} :
                /\ processed[d] =>
                      \E w \in {t, u} :
                         Has(stages[w], "append") /\ Has(stages[w], "copy")
                /\ fail[d] \in StagesBeforeMark =>
                      ~processed[t] /\ ~processed[u]

\* The run reported with the first of two same-title transcripts filed, the
\* second skipped, and both marked.
C7_Witness ==
    /\ AtReport
    /\ \E t, u \in Transcripts :
          /\ DiscoveredPair(t, u)
          /\ Has(stages[t], "mark") /\ ~Attempted(u)
          /\ processed[t] /\ processed[u]
          /\ appends[u] = 0 /\ copies[u] = 0

\* ---------------------------------------------------------------------- C8
\* The append (annotate) or the copy of the transcript failed, in this
\* invocation or in the one before.
PartialFailure(t) == fail[t] \in {"append", "copy"} \/ t \in prevFail

NotifyPcs ==
    {"notify_daily", "notify_validation", "post_daily", "post_validation"}

\* C9: when notification work starts for a file, its copy succeeded and the
\* mark-by-title call has already returned, directly after the copy; the
\* notification steps, whatever their outcome, leave every processed flag
\* as it is.
C9_MarkBeforeNotification ==
    /\ [](pc \in NotifyPcs =>
             /\ copies[CurFile] = startCopies[CurFile] + 1
             /\ Len(stages[CurFile]) >= 6
             /\ SubSeq(stages[CurFile], 1, 6) =
                   <<"claim", "classify", "summarize", "append", "copy",
                     "mark">>)
    /\ [][(pc \in NotifyPcs) => (processed' = processed)]_vars

\* The chat summary of a filed and marked transcript is about to be made.
C9_Witness ==
    /\ pc \in {"notify_daily", "notify_validation"}
    /\ processed[CurFile]
    /\ ~startProcessed[CurFile]
    /\ Has(stages[CurFile], "copy")

LoopPcs == StagePcs \cup {"file", "file_error"}

\* C11: whatever a stage of the current file does (succeed, fail, raise),
\* the loop either stays on the file or moves to the metadata read of the
\* next file of the list, within the same identity's pass; the list is
\* never cut short.
C11_FailureKeepsLoopGoing ==
    /\ [](pc \in LoopPcs => new_files # <<>>)
    /\ [][(pc \in LoopPcs /\ Len(new_files) > 1) =>
             \/ new_files' = new_files /\ pc' \in LoopPcs
             \/ /\ new_files' = Tail(new_files)
                /\ pc' = "file"
                /\ user_idx' = user_idx]_vars

\* A stage of the first file failed in the first identity's pass, and the
\* pass is at the metadata read of the next file.
C11_Witness ==
    /\ pc = "file" /\ user_idx = 1
    /\ \E t \in Transcripts :
          t < CurFile /\ fail[t] \in {"export", "summarize", "append", "copy",
                                      "mark"}

\* --------------------------------------------------------------------- C12
\* C12: when an identity's discovery call fails (the pass ends at the
\* discovery although unmarked transcripts exist, which a discovery that
\* lists the folders never does), the report gets an error record for that
\* identity.
C12_DiscoveryErrorIsReported ==
    [][(/\ pc = "discover"
        /\ \E t \in Transcripts : ~processed[t]
        /\ pc' # "file")
       => /\ Len(results') = Len(results) + 1
          /\ results'[Len(results')].user = users[user_idx]
          /\ results'[Len(results')].status = "error"]_vars

\* --------------------------------------------------------------------- C13
\* C13: the identity list the handler iterates names no identity twice, so
\* the report of an invocation holds one record per distinct identity.
C13_OneRecordPerIdentity ==
    AtReport =>
       /\ Len(results) = Cardinality({users[i] : i \in 1..Len(users)})
       /\ \A i, j \in 1..Len(results) :
             i # j => results[i].user # results[j].user

\* --------------------------------------------------------------------- C14
\* C14: an invocation that answers 500 has not entered the loop over the
\* identities: the answer is given by one step from idle to idle that
\* leaves the store as it is, and while it stands no transcript has been
\* discovered, read, annotated, copied or marked by the invocation and the
\* report holds no identity.
C14_SetupFailureTouchesNothing ==
    /\ [](http_status = 500 =>
             /\ pc = "idle" /\ user_idx = 0 /\ new_files = <<>>
             /\ results = <<>>
             /\ \A t \in Transcripts :
                   /\ ~Attempted(t)
                   /\ processed[t] = startProcessed[t]
                   /\ appends[t] = startAppends[t]
                   /\ copies[t] = startCopies[t])
    /\ [][(invocation' = invocation + 1 /\ http_status' = 500) =>
             (pc = "idle" /\ pc' = "idle" /\ store' = store)]_vars

\* A second invocation answered 500 and left an unmarked transcript of
\* today, which the first invocation had annotated, as it was.
C14_Witness ==
    /\ http_status = 500 /\ invocation = 2
    /\ \E t \in Transcripts :
          ~processed[t] /\ created_today[t] /\ appends[t] = 1

\* --------------------------------------------------------------------- C15
\* C15: an invocation whose setup succeeded runs to its end and answers 200
\* with one record per identity, whatever stages fail; 200 is answered only
\* at the end of the loop, and 500 only by an invocation that never entered
\* it.
C15_InvocationCompletes ==
    /\ (pc # "idle") ~> (pc = "idle" /\ http_status = 200)
    /\ [][(pc # "idle" /\ pc' = "idle") =>
             (http_status' = 200 /\ Len(results') = Len(users))]_vars
    /\ [][(http_status' = 500 /\ http_status # 500) => pc = "idle"]_vars
    /\ [](pc # "idle" => http_status = 0)

\* An invocation in which a stage of a transcript failed has answered 200.
C15_Witness ==
    /\ pc = "idle" /\ http_status = 200
    /\ Len(results) = Len(users)
    /\ \E t \in Transcripts : fail[t] # "none"

\* --------------------------------------------------------------------- C16
\* C16: the chunks returned are a non-empty list whose join with newlines
\* is the text, and a text no longer than the limit comes back as the one
\* chunk.
C16_ChunksJoinToText ==
    chunk_pc = "returned" =>
       /\ chunks # <<>>
       /\ Join(chunks) = content
       /\ Len(content) <= max_chunk_size => chunks = <<content>>

\* A text with an empty line and a trailing newline was split into several
\* chunks.
C16_Witness ==
    /\ chunk_pc = "returned"
    /\ Len(chunks) >= 2
    /\ Len(content) >= 3
    /\ content[Len(content)] = NL
    /\ \E i \in 1..(Len(content) - 1) : content[i] = NL /\ content[i + 1] = NL

\* --------------------------------------------------------------------- C17
\* The lines of all the chunks of a list, in order.
LinesOf(list) ==
    LET RECURSIVE Cat(_)
        Cat(l) == IF l = <<>> THEN <<>>
                  ELSE SplitOn(Head(l), NL) \o Cat(Tail(l))
    IN Cat(list)

\* C17: every chunk is at most as long as the limit unless it is one line
\* that is longer than the limit by itself, and the chunks cut the text at
\* line boundaries only: their lines, in order, are the lines of the text.
C17_ChunkWithinLimit ==
    chunk_pc = "returned" =>
       /\ \A i \in 1..Len(chunks) :
             \/ Len(chunks[i]) <= max_chunk_size
             \/ \A j \in 1..Len(chunks[i]) : chunks[i][j] # NL
       /\ LinesOf(chunks) = SplitOn(content, NL)

\* A line longer than the limit came back as a chunk of its own, beside
\* chunks within the limit.
C17_Witness ==
    /\ chunk_pc = "returned"
    /\ \E i, k \in 1..Len(chunks) :
          /\ Len(chunks[i]) > max_chunk_size
          /\ k # i /\ chunks[k] # <<>> /\ Len(chunks[k]) <= max_chunk_size

\* --------------------------------------------------------------------- C18
\* The number of chunks of a greedy packer that starts a new chunk only when
\* the current chunk joined with the next line would be longer than the
\* limit; `len` is the length of the current chunk, -1 when it has no line.
GreedyCount(text, limit) ==
    LET RECURSIVE Count2(_, _)
        Count2(lines, len) ==
            IF lines = <<>> THEN IF len >= 0 THEN 1 ELSE 0
            ELSE LET l == Len(Head(lines))
                 IN IF len < 0 THEN Count2(Tail(lines), l)
                    ELSE IF len + 1 + l > limit
                         THEN 1 + Count2(Tail(lines), l)
                         ELSE Count2(Tail(lines), len + 1 + l)
    IN Count2(SplitOn(text, NL), -1)

\* C18: _chunk_content returns as many chunks as the greedy packer.
C18_ChunkCountIsGreedy ==
    chunk_pc = "returned" =>
       Len(chunks) = GreedyCount(content, max_chunk_size)

\* --------------------------------------------------------------------- C19
\* A step that is a call of the rate limiter: it admits one more call.
AdmitStep == Len(admitted') = Len(admitted) + 1

\* C19: the counter is the number of calls admitted since the window start.
\* A call made when the window is over is admitted at once, with a fresh
\* window starting at the call. A call made inside the window with the
\* counter at the ceiling sleeps exactly the window minus the elapsed time,
\* is admitted when it wakes, and the counter and the window restart there.
\* Any other call is admitted at once in the current window.
C19_BlocksForRestOfWindow ==
    /\ [](requests_in_minute =
             Cardinality({i \in 1..Len(admitted) :
                             admitted[i] >= last_request_time}))
    /\ [][AdmitStep =>
             LET elapsed == now - last_request_time
             IN IF elapsed >= Window
                THEN /\ slept' = 0 /\ now' = now
                     /\ last_request_time' = now
                     /\ requests_in_minute' = 1
                ELSE IF requests_in_minute >= Ceiling
                     THEN /\ slept' = Window - elapsed
                          /\ now' >= now + slept'
                          /\ last_request_time' = now'
                          /\ requests_in_minute' = 1
                     ELSE /\ slept' = 0 /\ now' = now
                          /\ last_request_time' = last_request_time
                          /\ requests_in_minute' = requests_in_minute + 1
          ]_vars
    /\ [][AdmitStep => admitted' = Append(admitted, now')]_vars

\* The call after the ceiling was reached slept for what was left of the
\* window, part of which had elapsed, and was admitted in a fresh window.
C19_Witness ==
    /\ Len(admitted) = Ceiling + 1
    /\ slept > 0 /\ slept < Window
    /\ requests_in_minute = 1
    /\ last_request_time = now

\* --------------------------------------------------------------------- C20
\* C20: the calls admitted in any interval of one window's length are at
\* most the ceiling.
C20_RollingQuota ==
    \A i \in 1..Len(admitted) :
       Cardinality({j \in 1..Len(admitted) :
                       /\ admitted[j] <= admitted[i]
                       /\ admitted[j] > admitted[i] - Window}) <= Ceiling

\* --------------------------------------------------------------------- C21
\* The events of one kind in the trace of the current call, in order.
EventsOf(kind) == SelectSeq(trace, LAMBDA e : e[1] = kind)

\* The trace without the admissions and the cool-downs.
RequestsAndBackoffs ==
    SelectSeq(trace, LAMBDA e : e[1] \in {"request", "backoff"})

\* C21: a call that returned at its third attempt returns the text of the
\* third attempt's first candidate (stripped of the blanks around it); two
\* backoff delays were slept, one between the first and the second request
\* and one between the second and the third, each between 4 and 10 seconds.
C21_ThirdAttemptReturns ==
    (gen_pc = "returned" /\ Len(outcomes) = 3) =>
       /\ outcomes[1] # "ok" /\ outcomes[2] # "ok" /\ outcomes[3] = "ok"
       /\ gen_result = Strip(texts[3])
       /\ Len(EventsOf("backoff")) = 2
       /\ \A i \in 1..2 :
             EventsOf("backoff")[i][2] >= 4 /\ EventsOf("backoff")[i][2] <= 10
       /\ Len(RequestsAndBackoffs) = 5
       /\ \A i \in 1..5 :
             RequestsAndBackoffs[i][1] =
                (IF i \in {2, 4} THEN "backoff" ELSE "request")

\* A network error, then a 429, then a text: the call returned the text.
C21_Witness ==
    /\ gen_pc = "returned"
    /\ outcomes = <<"error", "429", "ok">>
    /\ texts[3] = <<"Client Meeting">>
    /\ gen_result = <<"Client Meeting">>

\* --------------------------------------------------------------------- C22
\* The value an operation returns for a failure.
FailureValue(o) == IF o = "determine_meeting_type" THEN <<"Other">> ELSE None

\* The texts the backend can produce, stripped.
ProducedTexts == {Strip(t) : t \in BackendTexts}

\* C22: no operation ever raises; an exception of the call (all attempts
\* failed, whatever the failures were) ends the operation at once with its
\* failure value, and an operation that returned has returned a category,
\* a produced text, or its failure value.
C22_OperationsNeverRaise ==
    /\ [](op_pc # "raised")
    /\ [](op_pc = "returned" =>
             \/ op_result = FailureValue(op)
             \/ op_result \in ProducedTexts
             \/ op = "determine_meeting_type"
                /\ op_result \in {<<c>> : c \in ValidCategories})
    /\ [][(gen_pc = "raised") =>
             (op_pc' = "returned" /\ op_result' = FailureValue(op))]_vars

\* The validation summary returned None after a malformed body, a 429 and
\* a body without candidates.
C22_Witness ==
    /\ op = "generate_user_validation_summary"
    /\ op_pc = "returned"
    /\ op_result = None
    /\ outcomes = <<"malformed", "429", "empty">>

\* --------------------------------------------------------------------- C23
\* The last attempt of the current call produced text.
Succeeded == outcomes # <<>> /\ outcomes[Len(outcomes)] = "ok"

\* C23: determine_meeting_type returns one of the seven categories: the
\* backend's text (stripped) when it is one of them, "Other" when it is
\* not and when every attempt failed.
C23_ClassificationIsTotal ==
    (op = "determine_meeting_type" /\ op_pc = "returned") =>
       /\ op_result \in {<<c>> : c \in ValidCategories}
       /\ Cardinality(ValidCategories) = 7
       /\ IF Succeeded /\ Strip(texts[Len(texts)]) \in
                             {<<c>> : c \in ValidCategories}
          THEN op_result = Strip(texts[Len(texts)])
          ELSE op_result = <<"Other">>

\* The backend answered with a label in lower case: the result is Other.
C23_Witness ==
    /\ op = "determine_meeting_type" /\ op_pc = "returned"
    /\ Succeeded
    /\ texts[Len(texts)] = <<"client meeting">>
    /\ op_result = <<"Other">>

\* --------------------------------------------------------------------- C24
\* The stages of a transcript, in the order of process_meet_files: the
\* title claim, then classify, summarize, append summary, copy,
\* mark-by-title, and the notification (its text, then its post).
StageOrder ==
    <<"claim", "classify", "summarize", "append", "copy", "mark", "notify",
      "post">>

IsPrefix(s, full) == Len(s) <= Len(full) /\ s = SubSeq(full, 1, Len(s))

\* The stages completed when the stage named failed.
StagesBefore(failed) ==
    SubSeq(StageOrder, 1,
           CASE failed = "export" -> 1
             [] failed = "summarize" -> 2
             [] failed = "append" -> 3
             [] failed \in {"unmapped", "copy"} -> 4
             [] failed = "mark" -> 5)

\* C24: within an invocation the stages a transcript has completed are an
\* initial part of the order classify, summarize, append, copy, mark,
\* notify, each once; when a stage has failed for it, the completed stages
\* are those before the failed one and stay so; after a failed summary
\* write the invocation has not copied, marked or notified it.
C24_StagesInOrder ==
    \A t \in Transcripts :
       /\ IsPrefix(stages[t], StageOrder)
       /\ fail[t] # "none" => stages[t] = StagesBefore(fail[t])
       /\ fail[t] = "append" =>
             /\ appends[t] = startAppends[t]
             /\ copies[t] = startCopies[t]
             /\ processed[t] = startProcessed[t]

\* The summary write of a transcript failed after its classification and
\* summary, and the invocation has gone on to its report.
C24_Witness ==
    /\ AtReport
    /\ \E t \in Transcripts :
          /\ fail[t] = "append"
          /\ stages[t] = <<"claim", "classify", "summarize">>
          /\ ~processed[t]

\* --------------------------------------------------------------------- C25
\* C25: a transcript whose summary failed or came back empty has, for the
\* rest of the invocation, no summary appended, no copy made, no
\* notification, and its processed flag as the invocation found it.
C25_SummarizeFailureLeavesUntouched ==
    \A t \in Transcripts :
       fail[t] = "summarize" =>
          /\ appends[t] = startAppends[t]
          /\ copies[t] = startCopies[t]
          /\ processed[t] = startProcessed[t]
          /\ \A st \in {"append", "copy", "mark", "notify", "post"} :
                ~Has(stages[t], st)

\* The invocation reported with a transcript of today whose summary
\* failed: it is unmarked and was not annotated or copied.
C25_Witness ==
    /\ AtReport
    /\ \E t \in Transcripts :
          /\ fail[t] = "summarize"
          /\ created_today[t] /\ ~processed[t]
          /\ appends[t] = 0 /\ copies[t] = 0

\* --------------------------------------------------------------------- C26
\* C26: a type without a destination folder ends the file at the copy
\* stage with no copy made; a transcript that ended there, or whose copy
\* failed, has its summary appended, no copy, its processed flag as the
\* invocation found it, and no mark or notification in this invocation.
C26_UnmappedIsAnnotatedOnly ==
    /\ [](\A t \in Transcripts :
             fail[t] \in {"unmapped", "copy"} =>
                /\ appends[t] = startAppends[t] + 1
                /\ copies[t] = startCopies[t]
                /\ processed[t] = startProcessed[t]
                /\ \A st \in {"copy", "mark", "notify", "post"} :
                      ~Has(stages[t], st))
    /\ [][(pc = "copy" /\ meeting_type \notin FolderMapping) =>
             (fail'[CurFile] = "unmapped" /\ copies' = copies)]_vars
    /\ [][\A t \in Transcripts :
             (fail'[t] = "unmapped" /\ fail[t] # "unmapped") =>
                (pc = "copy" /\ t = CurFile
                 /\ meeting_type \notin FolderMapping)]_vars

\* The invocation reported with a transcript classified Other: annotated,
\* not copied, not marked.
C26_Witness ==
    /\ AtReport
    /\ \E t \in Transcripts :
          /\ fail[t] = "unmapped"
          /\ appends[t] = 1 /\ copies[t] = 0 /\ ~processed[t]

\* --------------------------------------------------------------------- C27
\* C27: no step changes anything of a transcript that is not of today: no
\* stage is recorded for it, no summary appended, no copy made, its
\* processed flag stays, and the read of its metadata leaves the title set
\* as it is.
C27_StaleIsUntouched ==
    [][\A t \in Transcripts :
          ~created_today[t] =>
             /\ processed'[t] = processed[t]
             /\ appends'[t] = appends[t]
             /\ copies'[t] = copies[t]
             /\ Len(stages'[t]) <= Len(stages[t])
             /\ (pc = "file" /\ CurFile = t) =>
                   processed_titles' = processed_titles]_vars

\* --------------------------------------------------------------------- C28
\* C28: a call sends at most 3 requests, one per attempt; only its last
\* attempt can succeed; it raises only after 3 failed attempts, and then
\* the calling operation returns its failure value in the next step and no
\* request follows; a request answered with 429 is followed by the
\* 5-second cool-down, and then, when another attempt follows, by the
\* backoff delay.
C28_BoundedRetry ==
    /\ [](/\ Len(outcomes) <= 3
          /\ Len(EventsOf("request")) = Len(outcomes)
          /\ Len(sent) = Len(outcomes)
          /\ \A i \in 1..(Len(outcomes) - 1) : outcomes[i] # "ok"
          /\ gen_pc = "returned" => outcomes[Len(outcomes)] = "ok"
          /\ gen_pc = "raised" =>
                Len(outcomes) = 3 /\ outcomes[3] # "ok"
          /\ \A i \in 1..Len(trace) :
                /\ trace[i][1] = "cooldown" =>
                      /\ trace[i][2] = 5
                      /\ i > 1 /\ trace[i - 1][1] = "request"
                      /\ outcomes[trace[i - 1][2]] = "429"
                /\ (trace[i][1] = "request" /\ outcomes[trace[i][2]] = "429")
                      => /\ i < Len(trace)
                         /\ trace[i + 1] = <<"cooldown", 5>>
                         /\ i + 2 <= Len(trace) =>
                               /\ trace[i + 2][1] = "backoff"
                               /\ trace[i + 2][2] >= 4)
    /\ [][(gen_pc \in {"returned", "raised"}) =>
             (outcomes' = outcomes \/ (outcomes' = <<>> /\ gen_pc = "returned"))
          ]_vars
    /\ [][(gen_pc = "raised") =>
             (op_pc' = "returned" /\ op_result' = FailureValue(op))]_vars
    /\ [][(Len(outcomes') = Len(outcomes) + 1
           /\ outcomes'[Len(outcomes')] = "429")
          => now' = admitted'[Len(admitted')] + 5]_vars
    /\ [][(gen_pc = "failed" /\ gen_pc' = "attempt") =>
             (now' >= now + 4 /\ now' <= now + 10)]_vars

\* Three attempts failed, the first with a 429: the operation returned its
\* failure value after one cool-down and two backoff delays.
C28_Witness ==
    /\ op_pc = "returned"
    /\ op_result = FailureValue(op)
    /\ outcomes = <<"429", "empty", "error">>
    /\ Len(EventsOf("cooldown")) = 1
    /\ Len(EventsOf("backoff")) = 2

\* --------------------------------------------------------------------- C29
\* C29: a call performs the rate-limit admission once, before its first
\* request, however many attempts it makes.
C29_OneAdmissionPerCall ==
    gen_pc \in {"returned", "raised"} =>
       /\ Len(EventsOf("admit")) = 1
       /\ trace[1][1] = "admit"

\* --------------------------------------------------------------------- C30
\* C30: an attempt whose response has no candidates fails; it is followed
\* by another attempt while the budget lasts; a call never returns after
\* such a response, and an operation whose call ended with one returns its
\* failure value, which is not the empty string.
C30_NoCandidatesIsFailure ==
    /\ [][(Len(outcomes') = Len(outcomes) + 1
           /\ outcomes'[Len(outcomes')] = "empty")
          => gen_pc' = "failed"]_vars
    /\ [][(gen_pc = "failed" /\ attempt_number < 3) =>
             (gen_pc' = "attempt" /\ attempt_number' = attempt_number + 1)
          ]_vars
    /\ [](gen_pc = "returned" => outcomes[Len(outcomes)] # "empty")
    /\ []((/\ op_pc = "returned"
           /\ outcomes # <<>>
           /\ outcomes[Len(outcomes)] = "empty")
          => /\ Len(outcomes) = 3
             /\ op_result = FailureValue(op)
             /\ op_result # <<>>)

\* Every attempt of a summary call got a response without candidates: the
\* operation returned None.
C30_Witness ==
    /\ op = "summarize_transcript" /\ op_pc = "returned"
    /\ outcomes = <<"empty", "empty", "empty">>
    /\ op_result = None

\* --------------------------------------------------------------------- C31
\* The chunks of the transcript of the operation.
TranscriptChunks == ChunkContent(transcript_text, max_chunk_size)

\* The calls go through the chunks in order, one call per chunk: the call
\* in progress is for the first chunk still to do, the chunks still to do
\* are the last ones of the transcript, and a call that returned is
\* followed by the call for the next chunk. A chunk call that raises after
\* its retries ends the operation with None, and a merge call is issued
\* only after a chunk call or stays the one in progress.
ChunkCallsInOrder ==
    /\ [](op_pc = "part" =>
             /\ parts # <<>>
             /\ Len(parts) <= Len(TranscriptChunks)
             /\ parts = SubSeq(TranscriptChunks,
                               Len(TranscriptChunks) - Len(parts) + 1,
                               Len(TranscriptChunks))
             /\ prompt = Preamble \o parts[1])
    /\ [][(op_pc = "part" /\ gen_pc = "returned" /\ Len(parts) > 1) =>
             (op_pc' = "part" /\ parts' = Tail(parts))]_vars
    /\ [][(op_pc = "part" /\ gen_pc = "raised") =>
             (op_pc' = "returned" /\ op_result' = None)]_vars
    /\ [][(op_pc' = "combine") =>
             (op_pc \in {"part", "combine"} /\ gen_pc # "raised")]_vars

\* C31: the chunk calls are made in chunk order, one per chunk, and a
\* failed chunk call ends the operation with None and no merge call. The
\* summaries kept are the non-empty texts the chunk calls returned, in
\* order. When the call of the last chunk has returned, one merge call is
\* issued on the summaries kept, and its text is the operation's result;
\* when none was kept, no merge call is issued and None is returned.
C31_MergeOfKeptSummaries ==
    /\ ChunkCallsInOrder
    /\ [](Len(summaries) <= Len(TranscriptChunks) - Len(parts))
    /\ [][(op_pc = "part" /\ gen_pc = "returned") =>
             summaries' = (IF gen_result # <<>>
                           THEN Append(summaries, gen_result)
                           ELSE summaries)]_vars
    /\ [][(op_pc = "part" /\ gen_pc = "returned" /\ Len(parts) = 1) =>
             IF summaries' = <<>>
             THEN op_pc' = "returned" /\ op_result' = None
             ELSE /\ op_pc' = "combine"
                  /\ attempt_number' = 1
                  /\ prompt' = <<"c", NL, NL>> \o PartList(summaries')]_vars
    /\ [][(op_pc = "combine") =>
             /\ prompt' = prompt /\ summaries' = summaries
             /\ op_pc' \in {"combine", "returned"}
             /\ (gen_pc = "returned") =>
                   (op_pc' = "returned" /\ op_result' = gen_result)
             /\ (gen_pc = "raised") =>
                   (op_pc' = "returned" /\ op_result' = None)]_vars

\* Both chunk calls returned text, the merge call was made on the two
\* summaries, and its text was returned.
C31_Witness ==
    /\ op_pc = "returned"
    /\ Len(TranscriptChunks) = 2
    /\ Len(summaries) = 2
    /\ prompt = CombinedPrompt(summaries)
    /\ op_result = <<"Client Meeting">>

\* C31 as stated: the chunk calls are made in chunk order, a failed chunk
\* call ends the operation with None and no merge call, and when the call
\* of the last chunk has returned, the merge call is issued with one
\* summary per chunk.
C31_OneCallPerChunkThenMerge ==
    /\ [](op_pc = "part" =>
             /\ parts # <<>>
             /\ Len(parts) <= Len(TranscriptChunks)
             /\ parts = SubSeq(TranscriptChunks,
                               Len(TranscriptChunks) - Len(parts) + 1,
                               Len(TranscriptChunks))
             /\ prompt = Preamble \o parts[1])
    /\ [][(op_pc = "part" /\ gen_pc = "returned" /\ Len(parts) > 1) =>
             (op_pc' = "part" /\ parts' = Tail(parts))]_vars
    /\ [][(op_pc = "part" /\ gen_pc = "raised") =>
             (op_pc' = "returned" /\ op_result' = None)]_vars
    /\ [][(op_pc' = "combine") =>
             (op_pc \in {"part", "combine"} /\ gen_pc # "raised")]_vars
    /\ [][(op_pc = "part" /\ gen_pc = "returned" /\ Len(parts) = 1) =>
             (/\ op_pc' = "combine"
              /\ Len(summaries') = Len(TranscriptChunks)
              /\ prompt' = CombinedPrompt(summaries'))]_vars

\* --------------------------------------------------------------------- C32
\* C32: every request of a call carries the whole prompt the operation
\* built.
C32_WholePromptIsSent ==
    \A i \in 1..Len(sent) : sent[i] = prompt

\* --------------------------------------------------------------------- C33
\* C33: the counter is always between 0 and the ceiling, and at least 1
\* once a call was admitted; a call that does not count on from the old
\* value has reset the counter, and every reset starts the window at the
\* time of the admission: the counter is 1 and the window start is the
\* current time after the step. Time never runs backwards.
C33_CounterWithinCeiling ==
    /\ [](/\ requests_in_minute >= 0
          /\ requests_in_minute <= Ceiling
          /\ admitted # <<>> => requests_in_minute >= 1
          /\ last_request_time <= now)
    /\ [][now' >= now]_vars
    /\ [][(AdmitStep /\ requests_in_minute' # requests_in_minute + 1) =>
             (requests_in_minute' = 1 /\ last_request_time' = now')]_vars
    /\ [][(last_request_time' # last_request_time) =>
             (AdmitStep /\ requests_in_minute' = 1
              /\ last_request_time' = now')]_vars

\* The ceiling was reached in one window, the window ran out, and the next
\* call was admitted at once with the counter and the window reset.
C33_Witness ==
    /\ Len(admitted) = Ceiling + 1
    /\ slept = 0
    /\ requests_in_minute = 1
    /\ last_request_time = now
    /\ \A i \in 1..Ceiling : admitted[i] + Window <= now
    /\ admitted[Ceiling] < admitted[1] + Window
====
